---- MODULE Spec2Model ----
(***************************************************************************)
(* A model of the optimisation engine of vikos (src/src/lib.rs):           *)
(* teach_history, inert_gradient_descent_step, stochastic_gradient_descent *)
(* and inert_stochastic_gradient_descent, driven through the Model, Cost   *)
(* and Teacher traits.                                                     *)
(*                                                                         *)
(* Scalars (Model::Target : Float) are modelled as a bounded float:        *)
(* the integers -MaxFinite..MaxFinite are the finite values, PInf and NInf *)
(* the two infinities and NaN the not-a-number; arithmetic is exact on     *)
(* the finite values, overflows to an infinity and follows IEEE 754 on     *)
(* the special values.  Rounding and the sign of zero are not modelled.    *)
(***************************************************************************)
EXTENDS Integers, Sequences, FiniteSets, TLC

\* ------------------------------------------------------------------ bounds
MaxFinite == 6
MaxHist == 2
MaxVelLen == 3

\* ------------------------------------------------------- the float scalars
PInf == MaxFinite + 1
NInf == 0 - PInf
NaN == MaxFinite + 2

IsFinite(a) == a >= 0 - MaxFinite /\ a <= MaxFinite

\* rounding of an exact result: out of range overflows to an infinity
Overflow(z) == IF z > MaxFinite THEN PInf ELSE IF z < 0 - MaxFinite THEN NInf ELSE z

FZero == 0
FOne == 1

FNeg(a) == IF a = NaN THEN NaN ELSE 0 - a

FAdd(a, b) ==
    IF a = NaN \/ b = NaN THEN NaN
    ELSE IF a = PInf THEN (IF b = NInf THEN NaN ELSE PInf)
    ELSE IF a = NInf THEN (IF b = PInf THEN NaN ELSE NInf)
    ELSE IF b = PInf \/ b = NInf THEN b
    ELSE Overflow(a + b)

FSub(a, b) == FAdd(a, FNeg(b))

Sign(a) == IF a > 0 THEN 1 ELSE IF a < 0 THEN 0 - 1 ELSE 0

FMul(a, b) ==
    IF a = NaN \/ b = NaN THEN NaN
    ELSE IF IsFinite(a) /\ IsFinite(b) THEN Overflow(a * b)
    ELSE IF a = 0 \/ b = 0 THEN NaN
    ELSE IF Sign(a) * Sign(b) > 0 THEN PInf ELSE NInf

\* f64::signum, with signum(NaN) = NaN
FSignum(a) == IF a = NaN THEN NaN ELSE Sign(a)

\* ------------------------------------------------- implementations of Model
\* The trait is abstract; the engine is checked against three implementors.
\* Coefficient index ci of the code is position ci + 1 of the sequence.
ModelKinds == {"Constant", "Linear", "Product"}

num_coefficents(kind) == IF kind = "Constant" THEN 1 ELSE 2

predict(kind, coef, x) ==
    CASE kind = "Constant" -> coef[1]
      [] kind = "Linear"   -> FAdd(FMul(coef[1], x), coef[2])
      [] kind = "Product"  -> FMul(FMul(coef[1], coef[2]), x)

gradient(kind, coef, ci, x) ==
    CASE kind = "Constant" -> FOne
      [] kind = "Linear"   -> IF ci = 0 THEN x ELSE FOne
      [] kind = "Product"  -> IF ci = 0 THEN FMul(coef[2], x) ELSE FMul(coef[1], x)

\* Clone: an independent copy with the same coefficients
clone(coef) == [i \in 1..Len(coef) |-> coef[i]]

\* -------------------------------------------------- implementations of Cost
CostKinds == {"LeastSquares", "LeastAbsoluteDeviation"}

cost_gradient(cost, prediction, truth, g) ==
    CASE cost = "LeastSquares" -> FMul(FMul(2, FSub(prediction, truth)), g)
      [] cost = "LeastAbsoluteDeviation" ->
            IF FSub(prediction, truth) = 0 THEN FZero
            ELSE FMul(FSignum(FSub(prediction, truth)), g)

\* ------------------------------------------------ the canonical Teacher
\* train::GradientDescent::teach_event: one prediction per event, then for
\* each coefficient index in increasing order
\*   coefficent(ci) <- coefficent(ci) - learning_rate * cost.gradient(...)
RECURSIVE teach_loop(_, _, _, _, _, _, _, _)
teach_loop(learning_rate, cost, kind, coef, x, truth, prediction, ci) ==
    IF ci >= num_coefficents(kind) THEN coef
    ELSE teach_loop(learning_rate, cost, kind,
            [coef EXCEPT ![ci + 1] =
                FSub(coef[ci + 1],
                     FMul(learning_rate,
                          cost_gradient(cost, prediction, truth, gradient(kind, coef, ci, x))))],
            x, truth, prediction, ci + 1)

teach_event(learning_rate, cost, kind, coef, x, truth) ==
    teach_loop(learning_rate, cost, kind, coef, x, truth, predict(kind, coef, x), 0)

\* ------------------------------------------------------- pure renderings
\* teach_history as a function of its arguments: the for loop folds
\* teach_event over the history, front to back.
RECURSIVE teach_history(_, _, _, _, _)
teach_history(learning_rate, cost, kind, coef, history) ==
    IF history = << >> THEN coef
    ELSE teach_history(learning_rate, cost, kind,
            teach_event(learning_rate, cost, kind, coef, Head(history)[1], Head(history)[2]),
            Tail(history))

\* a variant of InvInertia with the operands of the subtraction swapped
InvInertia_swapped(inertia) == FSub(inertia, FOne)

\* line 90: let inv_inertia = M::Target::one() - inertia
InvInertia(inertia) == FSub(FOne, inertia)

\* The body of the coefficient loop of inert_gradient_descent_step for one
\* index ci, on a model with coefficients coef and a buffer vel holding ci.
step_coef(cost, kind, coef, vel, x, truth, learning_rate, inertia, inv, prediction, ci) ==
    LET v == FSub(FMul(inertia, vel[ci + 1]),
                  FMul(FMul(inv, learning_rate),
                       cost_gradient(cost, prediction, truth, gradient(kind, coef, ci, x))))
    IN  [coef |-> [coef EXCEPT ![ci + 1] = FAdd(coef[ci + 1], v)],
         vel  |-> [vel EXCEPT ![ci + 1] = v]]

\* The coefficient loop run over the indices listed in order
RECURSIVE step_over(_, _, _, _, _, _, _, _, _, _, _)
step_over(order, cost, kind, coef, vel, x, truth, learning_rate, inertia, inv, prediction) ==
    IF order = << >> THEN [coef |-> coef, vel |-> vel]
    ELSE LET r == step_coef(cost, kind, coef, vel, x, truth, learning_rate, inertia,
                            inv, prediction, Head(order))
         IN  step_over(Tail(order), cost, kind, r.coef, r.vel, x, truth, learning_rate,
                       inertia, inv, prediction)

\* 0..n-1 as the range of the for loop
IndexRange(n) == [i \in 1..n |-> i - 1]

\* inert_gradient_descent_step as a function, for a buffer of sufficient length
inert_gradient_descent_step(cost, kind, coef, vel, x, truth, learning_rate, inertia) ==
    step_over(IndexRange(num_coefficents(kind)), cost, kind, coef, vel, x, truth,
              learning_rate, inertia, InvInertia(inertia), predict(kind, coef, x))

\* a variant of ZeroVelocity that allocates one entry too many
ZeroVelocity_long(n) == [i \in 1..(n + 1) |-> FZero]

\* velocity.resize(start.num_coefficents(), zero) on the empty vector
ZeroVelocity(n) == [i \in 1..n |-> FZero]

\* ------------------------------------------------------------ the inputs
Values == {0, 1}
Rates == {1, 2}
Inertias == {0, 1, 2}
Features == {1, 2}
Truths == {0, 3}
Events == Features \X Truths

SeqsUpTo(S, n) == UNION {[1..k -> S] : k \in 0..n}

Fns == {"teach_history", "stochastic_gradient_descent",
        "inert_stochastic_gradient_descent", "inert_gradient_descent_step"}

Args(f, k, c, s, lr, a, h, v) ==
    [fn |-> f, kind |-> k, cost |-> c, start |-> s, learning_rate |-> lr,
     inertia |-> a, history |-> h, velArg |-> v]

Starts(k) == [1..num_coefficents(k) -> Values]

\* The calls a caller can make.  teach_history and stochastic_gradient_descent
\* take no inertia (0 stands for the absent argument) and no buffer;
\* inert_gradient_descent_step takes one event and the caller's buffer, of
\* any length.
Inputs ==
    { Args(f, k, c, s, lr, 0, h, << >>) :
        f \in {"teach_history", "stochastic_gradient_descent"},
        k \in ModelKinds, c \in CostKinds, s \in SeqsUpTo(Values, 2),
        lr \in Rates, h \in SeqsUpTo(Events, MaxHist) }
    \cup
    { Args("inert_stochastic_gradient_descent", k, c, s, lr, a, h, << >>) :
        k \in ModelKinds, c \in CostKinds, s \in SeqsUpTo(Values, 2),
        lr \in Rates, a \in Inertias, h \in SeqsUpTo(Events, MaxHist) }
    \cup
    { Args("inert_gradient_descent_step", k, c, s, lr, a, <<e>>, v) :
        k \in ModelKinds, c \in CostKinds, s \in SeqsUpTo(Values, 2),
        lr \in Rates, a \in Inertias, e \in Events, v \in SeqsUpTo(Values, MaxVelLen) }

Admissible(i) == i.start \in Starts(i.kind)

\* ------------------------------------------------------------- the state
VARIABLES
    inp,         \* the arguments of the call
    pc,          \* position of the call: call, loop, step, coef, done, panic
    start,       \* the caller's start model (its coefficients)
    next,        \* the model being trained: next, or the caller's &mut model
    velocity,    \* the velocity buffer
    pos,         \* number of history elements taken from the iterator
    ci,          \* loop index of inert_gradient_descent_step
    prediction,  \* local of inert_gradient_descent_step
    inv_inertia, \* local of inert_gradient_descent_step
    calls,       \* the (features, truth) pairs teach_event was called with
    accessed,    \* the indices passed to gradient, coefficent and velocity[]
    pre,         \* coefficients and velocity when the current step began
    velFinite    \* no step so far began with a non-finite velocity entry

vars == <<inp, pc, start, next, velocity, pos, ci, prediction, inv_inertia,
          calls, accessed, pre, velFinite>>

N == num_coefficents(inp.kind)
Event == inp.history[pos]
NoPre == [coef |-> << >>, vel |-> << >>]

Init ==
    /\ inp \in {i \in Inputs : Admissible(i)}
    /\ start = inp.start
    /\ calls = << >>
    /\ accessed = {}
    /\ ci = 0
    /\ prediction = FZero
    /\ inv_inertia = FZero
    /\ pre = NoPre
    /\ velFinite = TRUE
    /\ velocity = inp.velArg
    /\ IF inp.fn = "inert_gradient_descent_step"
       THEN pc = "step" /\ pos = 1 /\ next = inp.start
       ELSE IF inp.fn = "teach_history"
       THEN pc = "loop" /\ pos = 0 /\ next = inp.start
       ELSE pc = "call" /\ pos = 0 /\ next = << >>

\* ------------------------------------------- when each step can be taken
CanThTeach == inp.fn = "teach_history" /\ pc = "loop" /\ pos < Len(inp.history)
CanThReturn == inp.fn = "teach_history" /\ pc = "loop" /\ pos = Len(inp.history)
CanSgdBegin == inp.fn = "stochastic_gradient_descent" /\ pc = "call"
CanSgdTeach == inp.fn = "stochastic_gradient_descent" /\ pc = "loop" /\ pos < Len(inp.history)
CanSgdReturn == inp.fn = "stochastic_gradient_descent" /\ pc = "loop" /\ pos = Len(inp.history)
CanInertBegin == inp.fn = "inert_stochastic_gradient_descent" /\ pc = "call"
CanInertCall == inp.fn = "inert_stochastic_gradient_descent" /\ pc = "loop" /\ pos < Len(inp.history)
CanInertReturn == inp.fn = "inert_stochastic_gradient_descent" /\ pc = "loop" /\ pos = Len(inp.history)
CanStepBegin == pc = "step"
CanStepCoef == pc = "coef" /\ ci < N
CanStepReturn == pc = "coef" /\ ci = N

\* ----------------------------------------------------------- teach_history
\* a variant of ThTeach that walks the history from its back
ThTeach_reversed ==
    /\ inp.fn = "teach_history" /\ pc = "loop" /\ pos < Len(inp.history)
    /\ pos' = pos + 1
    /\ calls' = Append(calls, inp.history[Len(inp.history) - pos])
    /\ next' = teach_event(inp.learning_rate, inp.cost, inp.kind, next,
                           inp.history[Len(inp.history) - pos][1],
                           inp.history[Len(inp.history) - pos][2])
    /\ accessed' = accessed \cup {i : i \in 0..(N - 1)}
    /\ UNCHANGED <<inp, pc, start, velocity, ci, prediction, inv_inertia, pre, velFinite>>

ThTeach ==
    /\ CanThTeach
    /\ pos' = pos + 1
    /\ calls' = Append(calls, inp.history[pos + 1])
    /\ next' = teach_event(inp.learning_rate, inp.cost, inp.kind, next,
                           inp.history[pos + 1][1], inp.history[pos + 1][2])
    /\ accessed' = accessed \cup {i : i \in 0..(N - 1)}
    /\ UNCHANGED <<inp, pc, start, velocity, ci, prediction, inv_inertia, pre, velFinite>>

ThReturn ==
    /\ CanThReturn
    /\ pc' = "done"
    /\ UNCHANGED <<inp, start, next, velocity, pos, ci, prediction, inv_inertia,
                   calls, accessed, pre, velFinite>>

\* ---------------------------------------------- stochastic_gradient_descent
SgdBegin ==
    /\ CanSgdBegin
    /\ next' = clone(start)
    /\ pc' = "loop"
    /\ UNCHANGED <<inp, start, velocity, pos, ci, prediction, inv_inertia,
                   calls, accessed, pre, velFinite>>

\* a variant of SgdTeach that trains the caller's start model in place
SgdTeach_inplace ==
    /\ inp.fn = "stochastic_gradient_descent" /\ pc = "loop" /\ pos < Len(inp.history)
    /\ pos' = pos + 1
    /\ calls' = Append(calls, inp.history[pos + 1])
    /\ start' = teach_event(inp.learning_rate, inp.cost, inp.kind, start,
                            inp.history[pos + 1][1], inp.history[pos + 1][2])
    /\ next' = start'
    /\ accessed' = accessed \cup {i : i \in 0..(N - 1)}
    /\ UNCHANGED <<inp, pc, velocity, ci, prediction, inv_inertia, pre, velFinite>>

\* a variant of SgdTeach that teaches every event to a fresh copy of start
SgdTeach_stale ==
    /\ inp.fn = "stochastic_gradient_descent" /\ pc = "loop" /\ pos < Len(inp.history)
    /\ pos' = pos + 1
    /\ calls' = Append(calls, inp.history[pos + 1])
    /\ next' = teach_event(inp.learning_rate, inp.cost, inp.kind, clone(start),
                           inp.history[pos + 1][1], inp.history[pos + 1][2])
    /\ accessed' = accessed \cup {i : i \in 0..(N - 1)}
    /\ UNCHANGED <<inp, pc, start, velocity, ci, prediction, inv_inertia, pre, velFinite>>

SgdTeach ==
    /\ CanSgdTeach
    /\ pos' = pos + 1
    /\ calls' = Append(calls, inp.history[pos + 1])
    /\ next' = teach_event(inp.learning_rate, inp.cost, inp.kind, next,
                           inp.history[pos + 1][1], inp.history[pos + 1][2])
    /\ accessed' = accessed \cup {i : i \in 0..(N - 1)}
    /\ UNCHANGED <<inp, pc, start, velocity, ci, prediction, inv_inertia, pre, velFinite>>

SgdReturn ==
    /\ CanSgdReturn
    /\ pc' = "done"
    /\ UNCHANGED <<inp, start, next, velocity, pos, ci, prediction, inv_inertia,
                   calls, accessed, pre, velFinite>>

\* ---------------------------------------- inert_stochastic_gradient_descent
\* a variant of InertBegin that leaves the new vector empty (no resize)
InertBegin_unsized ==
    /\ inp.fn = "inert_stochastic_gradient_descent" /\ pc = "call"
    /\ velocity' = << >>
    /\ next' = clone(start)
    /\ pc' = "loop"
    /\ UNCHANGED <<inp, start, pos, ci, prediction, inv_inertia, calls, accessed,
                   pre, velFinite>>

InertBegin ==
    /\ CanInertBegin
    /\ velocity' = ZeroVelocity(num_coefficents(inp.kind))
    /\ next' = clone(start)
    /\ pc' = "loop"
    /\ UNCHANGED <<inp, start, pos, ci, prediction, inv_inertia, calls, accessed,
                   pre, velFinite>>

\* a variant of InertCall that hands every event a fresh zero buffer
InertCall_reset ==
    /\ inp.fn = "inert_stochastic_gradient_descent" /\ pc = "loop"
    /\ pos < Len(inp.history)
    /\ pos' = pos + 1
    /\ pc' = "step"
    /\ velocity' = ZeroVelocity(num_coefficents(inp.kind))
    /\ UNCHANGED <<inp, start, next, ci, prediction, inv_inertia, calls,
                   accessed, pre, velFinite>>

\* the for loop takes the next event and calls inert_gradient_descent_step
InertCall ==
    /\ CanInertCall
    /\ pos' = pos + 1
    /\ pc' = "step"
    /\ UNCHANGED <<inp, start, next, velocity, ci, prediction, inv_inertia, calls,
                   accessed, pre, velFinite>>

InertReturn ==
    /\ CanInertReturn
    /\ pc' = "done"
    /\ UNCHANGED <<inp, start, next, velocity, pos, ci, prediction, inv_inertia,
                   calls, accessed, pre, velFinite>>

\* ----------------------------------------------- inert_gradient_descent_step
AllFinite(vel) == \A i \in 1..Len(vel) : IsFinite(vel[i])

StepBegin ==
    /\ CanStepBegin
    /\ inv_inertia' = InvInertia(inp.inertia)
    /\ prediction' = predict(inp.kind, next, Event[1])
    /\ ci' = 0
    /\ pc' = "coef"
    /\ pre' = [coef |-> next, vel |-> velocity]
    /\ velFinite' = (velFinite /\ AllFinite(velocity))
    /\ UNCHANGED <<inp, start, next, velocity, pos, calls, accessed>>

\* a variant of StepCoef that calls predict again for every coefficient
StepCoef_repredict ==
    /\ pc = "coef" /\ ci < N
    /\ accessed' = accessed \cup {ci}
    /\ IF ci >= Len(velocity)
       THEN /\ pc' = "panic"
            /\ UNCHANGED <<next, velocity, ci>>
       ELSE LET r == step_coef(inp.cost, inp.kind, next, velocity, Event[1], Event[2],
                               inp.learning_rate, inp.inertia, inv_inertia,
                               predict(inp.kind, next, Event[1]), ci)
            IN  /\ velocity' = r.vel
                /\ next' = r.coef
                /\ ci' = ci + 1
                /\ pc' = pc
    /\ UNCHANGED <<inp, start, pos, prediction, inv_inertia, calls, pre, velFinite>>

\* one pass of the loop body; velocity[ci] panics when ci is out of bounds
StepCoef ==
    /\ CanStepCoef
    /\ accessed' = accessed \cup {ci}
    /\ IF ci >= Len(velocity)
       THEN /\ pc' = "panic"
            /\ UNCHANGED <<next, velocity, ci>>
       ELSE LET r == step_coef(inp.cost, inp.kind, next, velocity, Event[1], Event[2],
                               inp.learning_rate, inp.inertia, inv_inertia, prediction, ci)
            IN  /\ velocity' = r.vel
                /\ next' = r.coef
                /\ ci' = ci + 1
                /\ pc' = pc
    /\ UNCHANGED <<inp, start, pos, prediction, inv_inertia, calls, pre, velFinite>>

StepReturn ==
    /\ CanStepReturn
    /\ pc' = IF inp.fn = "inert_gradient_descent_step" THEN "done" ELSE "loop"
    /\ UNCHANGED <<inp, start, next, velocity, pos, ci, prediction, inv_inertia,
                   calls, accessed, pre, velFinite>>

Next ==
    \/ ThTeach \/ ThReturn
    \/ SgdBegin \/ SgdTeach \/ SgdReturn
    \/ InertBegin \/ InertCall \/ InertReturn
    \/ StepBegin \/ StepCoef \/ StepReturn

Spec == Init /\ [][Next]_vars

\* some step of Next can be taken (every step's effect is defined whenever
\* its guard holds)
CanStep ==
    \/ CanThTeach \/ CanThReturn
    \/ CanSgdBegin \/ CanSgdTeach \/ CanSgdReturn
    \/ CanInertBegin \/ CanInertCall \/ CanInertReturn
    \/ CanStepBegin \/ CanStepCoef \/ CanStepReturn

\* ------------------------------------------- reference results for the claims
\* teach_event called by hand on the first k elements, one after the other
\* (the loop of tests::linear_stochastic_gradient_descent_iter)
RECURSIVE teach_by_hand(_, _, _, _, _, _)
teach_by_hand(learning_rate, cost, kind, coef, history, k) ==
    IF k = 0 THEN coef
    ELSE teach_event(learning_rate, cost, kind,
                     teach_by_hand(learning_rate, cost, kind, coef, history, k - 1),
                     history[k][1], history[k][2])

\* stochastic_gradient_descent as a function of its arguments
stochastic_gradient_descent(cost, kind, start_, history, learning_rate) ==
    teach_by_hand(learning_rate, cost, kind, clone(start_), history, Len(history))

\* the single-step momentum update folded over the first k events
RECURSIVE inert_fold(_, _, _, _, _, _, _, _)
inert_fold(cost, kind, coef, vel, history, learning_rate, inertia, k) ==
    IF k = 0 THEN [coef |-> coef, vel |-> vel]
    ELSE LET r == inert_fold(cost, kind, coef, vel, history, learning_rate, inertia, k - 1)
         IN  inert_gradient_descent_step(cost, kind, r.coef, r.vel, history[k][1],
                                         history[k][2], learning_rate, inertia)

Prefix(k) == SubSeq(inp.history, 1, k)
InSgd == inp.fn = "stochastic_gradient_descent"
InInert == inp.fn = "inert_stochastic_gradient_descent"
InStep == inp.fn = "inert_gradient_descent_step"
StepFinished == pc = "coef" /\ ci = N

\* ----------------------------------------------------------------- claims

\* C1: stochastic_gradient_descent and inert_stochastic_gradient_descent never
\* change a coefficient of the caller's start model: throughout the call and
\* at its return start holds the values it was passed with.
C1_StartUnmutated ==
    (InSgd \/ InInert) => start = inp.start

\* a run of either function has returned a trained model that differs from start
C1_Witness ==
    /\ InSgd \/ InInert
    /\ pc = "done" /\ Len(inp.history) > 0
    /\ next # start

\* C2: teach_history calls teach_event once per history element, in iteration
\* order: after pos elements the calls made are exactly the first pos elements,
\* the loop ends only when the history is exhausted, with Len(history) calls,
\* and the model is then what teach_event by hand on each element gives.
C2_TeachHistoryInOrder ==
    inp.fn = "teach_history" =>
        /\ calls = Prefix(pos)
        /\ pc = "done" =>
            /\ pos = Len(inp.history)
            /\ Len(calls) = Len(inp.history)
            /\ next = teach_by_hand(inp.learning_rate, inp.cost, inp.kind, inp.start,
                                    inp.history, Len(inp.history))

\* teach_history has returned from a history of two different events
C2_Witness ==
    /\ inp.fn = "teach_history" /\ pc = "done"
    /\ Len(inp.history) >= 2 /\ inp.history[1] # inp.history[2]
    /\ next # inp.start

\* the coefficients while index i is processed: those below i already updated
ModelAt(i) == [j \in 1..N |-> IF j <= i THEN next[j] ELSE pre.coef[j]]

\* C3: when a step on a buffer of length num_coefficents() has finished, for
\* every index i the new velocity[i] is
\*   inertia * old velocity[i] - (1 - inertia) * learning_rate
\*     * cost.gradient(prediction, truth, model.gradient(i, features))
\* and the new coefficient i is the old one plus the new velocity[i], where
\* prediction is predict(features) on the coefficients before the step, and
\* model.gradient(i, features) is the call the loop makes when it reaches i.
C3_StepFormula ==
    (StepFinished /\ Len(pre.vel) = N) =>
        \A i \in 0..(N - 1) :
            /\ velocity[i + 1] =
                 FSub(FMul(inp.inertia, pre.vel[i + 1]),
                      FMul(FMul(FSub(FOne, inp.inertia), inp.learning_rate),
                           cost_gradient(inp.cost,
                                         predict(inp.kind, pre.coef, Event[1]),
                                         Event[2],
                                         gradient(inp.kind, ModelAt(i), i, Event[1]))))
            /\ next[i + 1] = FAdd(pre.coef[i + 1], velocity[i + 1])

\* a finished step on two coefficients that moved both, from a non-zero velocity
C3_Witness ==
    /\ StepFinished /\ N = 2 /\ Len(pre.vel) = N
    /\ inp.inertia # 0
    /\ \E i \in 1..N : pre.vel[i] # 0
    /\ \A i \in 1..N : next[i] # pre.coef[i]
    /\ predict(inp.kind, next, Event[1]) # predict(inp.kind, pre.coef, Event[1])

\* the orders in which the indices 0..n-1 can be processed
Orders(n) == {o \in [1..n -> 0..(n - 1)] : \A i, j \in 1..n : o[i] = o[j] => i = j}

\* C4: the result of one inert_gradient_descent_step does not depend on the
\* order in which the coefficient indices are processed: every permutation of
\* the indices, run from the state before the step with the one prediction,
\* gives the coefficients and velocities the code's increasing order gives.
C4_OrderIndependent ==
    (StepFinished /\ Len(pre.vel) >= N) =>
        \A o \in Orders(N) :
            step_over(o, inp.cost, inp.kind, pre.coef, pre.vel, Event[1], Event[2],
                      inp.learning_rate, inp.inertia, InvInertia(inp.inertia),
                      predict(inp.kind, pre.coef, Event[1]))
              = [coef |-> next, vel |-> velocity]

\* C5: stochastic_gradient_descent returns what teach_history makes of a
\* duplicate of start with the plain-SGD teacher of that learning rate; after
\* pos events its model is teach_history of the first pos events.
C5_SgdIsTeachHistory ==
    (InSgd /\ pc \in {"loop", "done"}) =>
        /\ next = teach_history(inp.learning_rate, inp.cost, inp.kind,
                                clone(inp.start), Prefix(pos))
        /\ pc = "done" => pos = Len(inp.history)

\* stochastic_gradient_descent has returned after two events that moved the model
C5_Witness ==
    /\ InSgd /\ pc = "done" /\ Len(inp.history) >= 2
    /\ next # inp.start
    /\ next # teach_history(inp.learning_rate, inp.cost, inp.kind, clone(inp.start), Prefix(1))

\* C6: every index the engine passes to gradient, coefficent or velocity[] is
\* in 0..num_coefficents()-1, and in inert_stochastic_gradient_descent the
\* buffer has length num_coefficents() from its allocation to the return.
C6_IndicesInRange ==
    /\ \A i \in accessed : 0 <= i /\ i < N
    /\ (InInert /\ pc # "call") => Len(velocity) = N

\* a momentum run over two coefficients has returned after touching both
C6_Witness ==
    /\ InInert /\ pc = "done" /\ N = 2
    /\ accessed = {0, 1}

\* C7 as stated: no call ends in an abort raised by the core
C7_NeverAborts == pc # "panic"

\* C7, amended: the only abort is the bounds check of velocity[ci] in a direct
\* call of inert_gradient_descent_step with a buffer shorter than
\* num_coefficents(), at ci = velocity.len() and with the coefficients below
\* that index already updated; such a call never completes, and every other
\* call can always take its next step until it returns.
C7_AbortsOnlyOnShortBuffer ==
    /\ pc = "panic" =>
        /\ InStep /\ Len(inp.velArg) < N /\ ci = Len(velocity)
        /\ [coef |-> next, vel |-> velocity]
             = step_over(IndexRange(Len(inp.velArg)), inp.cost, inp.kind, inp.start,
                         inp.velArg, Event[1], Event[2], inp.learning_rate, inp.inertia,
                         InvInertia(inp.inertia), predict(inp.kind, inp.start, Event[1]))
    /\ (pc = "done" /\ InStep) => Len(inp.velArg) >= N
    /\ pc \notin {"done", "panic"} => CanStep

\* a direct step with a buffer longer than needed has completed and moved the model
C7_Witness ==
    /\ InStep /\ pc = "done" /\ Len(inp.velArg) > N
    /\ next # inp.start

\* C8: in inert_stochastic_gradient_descent the model and the buffer before
\* each event, after each event and at the return are the single-step update
\* folded over the events taken so far, from a duplicate of start and a zero
\* buffer of length num_coefficents(); nothing else writes the buffer.
C8_VelocityCarriedOver ==
    InInert =>
        /\ pc = "loop" /\ pos = 0 => velocity = ZeroVelocity(N)
        /\ pc \in {"loop", "done"} =>
             [coef |-> next, vel |-> velocity]
               = inert_fold(inp.cost, inp.kind, clone(inp.start), ZeroVelocity(N),
                            inp.history, inp.learning_rate, inp.inertia, pos)
        /\ pc = "step" =>
             [coef |-> next, vel |-> velocity]
               = inert_fold(inp.cost, inp.kind, clone(inp.start), ZeroVelocity(N),
                            inp.history, inp.learning_rate, inp.inertia, pos - 1)
        /\ pc = "done" => pos = Len(inp.history)
        /\ (pc = "done" /\ inp.history = << >>) => next = inp.start

\* a momentum run has returned whose last event started from a non-zero velocity
C8_Witness ==
    /\ InInert /\ pc = "done" /\ Len(inp.history) >= 2
    /\ inp.inertia # 0
    /\ \E i \in 1..N : pre.vel[i] # 0 /\ IsFinite(pre.vel[i])
    /\ \A i \in 1..N : IsFinite(next[i])

\* C10 as stated: with inertia 0 the momentum run returns the coefficients of
\* stochastic_gradient_descent
C10_ZeroInertiaIsSgd ==
    (InInert /\ inp.inertia = 0 /\ pc = "done") =>
        next = stochastic_gradient_descent(inp.cost, inp.kind, inp.start, inp.history,
                                           inp.learning_rate)

\* C10, amended: with inertia 0 the momentum run agrees with plain SGD after
\* every event, and at the return, as long as every event so far started from
\* a velocity with finite entries only.
C10_ZeroInertiaIsSgdWhileFinite ==
    (InInert /\ inp.inertia = 0 /\ pc \in {"loop", "done"} /\ velFinite) =>
        next = stochastic_gradient_descent(inp.cost, inp.kind, inp.start, Prefix(pos),
                                           inp.learning_rate)

\* a zero-inertia run has returned whose last event discarded a non-zero velocity
C10_Witness ==
    /\ InInert /\ inp.inertia = 0 /\ pc = "done" /\ velFinite
    /\ Len(inp.history) >= 2
    /\ \E i \in 1..N : pre.vel[i] # 0
    /\ next # pre.coef

====
